---- MODULE Spec2Model ----
(***************************************************************************)
(* Model of traefik_validator: the schema cache (SchemaDownloader) and the *)
(* validation driver (Validator) of src/traefik_validator/utils.py.        *)
(*                                                                         *)
(* The file system is a function from cache paths to files; a file has a   *)
(* content (a sequence of text chunks) and a modification time.  The clock *)
(* is an integer number of seconds.  The network and the configuration     *)
(* files are inputs of the operations.                                     *)
(***************************************************************************)
EXTENDS Integers, Sequences, FiniteSets, TLC

(***************************************************************************)
(* Program constants                                                       *)
(***************************************************************************)
CACHE_TTL == 86400

STATIC_CONFS_SCHEMA_URL == "https://json.schemastore.org/traefik-v3.json"

DYNAMIC_CONFS_SCHEMA_URL == "https://json.schemastore.org/traefik-v3-file-provider.json"

CACHE_DIR == "~/.traefik-validator/cache"

(***************************************************************************)
(* Bounds of the model                                                     *)
(***************************************************************************)
\* number of clock advances in a behaviour
MaxTicks == 3

\* the amounts by which the clock advances: one second, and one second
\* less than the TTL (so that ages TTL-1, TTL and TTL+1 all occur)
Steps == {1, CACHE_TTL - 1}

\* the schema documents the network can serve
Docs == {"docA", "docB"}

\* the identifiers get_schema is called with
Urls == {STATIC_CONFS_SCHEMA_URL, DYNAMIC_CONFS_SCHEMA_URL}

(***************************************************************************)
(* JSON documents and their text                                           *)
(***************************************************************************)
\* json.dump(schema, f): the text of a document
JsonDump(d) == <<"{", d, "}">>

\* a text that json.load / json.loads rejects (a truncated document)
Malformed == <<"{", "docA">>

\* json.load(f) / json.loads(text): the document of a text, or a decode error
JsonLoad(text) ==
    IF Len(text) = 3 /\ text[1] = "{" /\ text[3] = "}" /\ text[2] \in Docs
    THEN [ok |-> TRUE, value |-> text[2]]
    ELSE [ok |-> FALSE, value |-> "JSONDecodeError"]

(***************************************************************************)
(* Results of a call: a returned value or a raised exception               *)
(***************************************************************************)
Return(v) == [kind |-> "return", value |-> v, type |-> "", about |-> ""]

Raise(t, u) == [kind |-> "raise", value |-> "", type |-> t, about |-> u]

\* the exception classes that are ValueError or derive from it
ValueErrors == {"ValueError", "JSONDecodeError"}

(***************************************************************************)
(* The file system                                                         *)
(***************************************************************************)
\* a cache path that does not depend on the url
get_cache_path_shared(url) == <<CACHE_DIR, "schema", ".json">>

\* SchemaDownloader._get_cache_path: CACHE_DIR / md5(url).hexdigest() + ".json"
get_cache_path(url) ==
    CASE url = STATIC_CONFS_SCHEMA_URL ->
             <<CACHE_DIR, "420f09d101c22b93df959f5cc5f5655d", ".json">>
      [] url = DYNAMIC_CONFS_SCHEMA_URL ->
             <<CACHE_DIR, "a79219e8b8d062c0e2321fe454af1d8a", ".json">>

Paths == {get_cache_path(u) : u \in Urls}

NoFile == [exists |-> FALSE, content |-> <<>>, mtime |-> 0]

\* the cache directory, as a path and as an entry of the file system
CacheDirPath == <<CACHE_DIR>>

Directory == [exists |-> TRUE, content |-> <<>>, mtime |-> 0]

\* os.makedirs(self.CACHE_DIR, exist_ok=True)
makedirs(fsys) == [fsys EXCEPT ![CacheDirPath] = Directory]

\* the payloads a URL can answer with: the text of a document, a text that
\* does not decode, or no answer at all (urllib.error.URLError)
Payloads == {JsonDump(d) : d \in Docs} \cup {Malformed, <<"URLError">>}

\* the configuration files a Validator is given: no file (None), a file that
\* is not YAML, or a YAML document; a document is described by the set of
\* schemas it conforms to (none of them, or the first only)
NoneFile == [given |-> FALSE, yaml |-> FALSE, accepts |-> {}]

NotYaml == [given |-> TRUE, yaml |-> FALSE, accepts |-> {}]

ConfFiles == {[given |-> TRUE, yaml |-> TRUE, accepts |-> S] : S \in {{}, {"docA"}}}

Files == {NoneFile, NotYaml} \cup ConfFiles

\* the processes that call get_schema concurrently
Procs == {1, 2}

VARIABLES fs, now, ticks, calls, checked, run, cli, procs

vars == <<fs, now, ticks, calls, checked, run, cli, procs>>

\* no _is_cache_valid call, no Validator run in the last step
NoCheck == [called |-> FALSE, path |-> <<>>, result |-> FALSE]

NoRun == [ran |-> FALSE, static_conf_file |-> NoneFile,
          dynamic_conf_file |-> NoneFile, offline |-> FALSE,
          printed |-> <<>>, validation_errors |-> <<>>,
          result |-> Return("None")]

\* _is_cache_valid with the comparison inverted
is_cache_valid_inverted(fsys, t, cache_path) ==
    IF ~fsys[cache_path].exists
    THEN FALSE
    ELSE LET cache_age == t - fsys[cache_path].mtime
         IN  cache_age > CACHE_TTL

\* _is_cache_valid with an entry of age exactly TTL still valid
is_cache_valid_inclusive(fsys, t, cache_path) ==
    IF ~fsys[cache_path].exists
    THEN FALSE
    ELSE LET cache_age == t - fsys[cache_path].mtime
         IN  cache_age <= CACHE_TTL

\* _is_cache_valid with the operands of the age swapped
is_cache_valid_swapped(fsys, t, cache_path) ==
    IF ~fsys[cache_path].exists
    THEN FALSE
    ELSE LET cache_age == fsys[cache_path].mtime - t
         IN  cache_age < CACHE_TTL

\* SchemaDownloader._is_cache_valid
is_cache_valid(fsys, t, cache_path) ==
    IF ~fsys[cache_path].exists
    THEN FALSE
    ELSE LET cache_age == t - fsys[cache_path].mtime
         IN  cache_age < CACHE_TTL

\* SchemaDownloader.download_from_url
download_from_url(net, url) ==
    IF net[url] = <<"URLError">>
    THEN Raise("ValueError", url)
    ELSE LET schema == JsonLoad(net[url])
         IN  IF schema.ok THEN Return(schema.value)
             ELSE Raise("JSONDecodeError", url)

\* with open(cache_path, 'r') as f: return json.load(f)
ReadCache(fsys, cache_path) ==
    LET doc == JsonLoad(fsys[cache_path].content)
    IN  IF doc.ok THEN Return(doc.value)
        ELSE Raise("JSONDecodeError", cache_path)

\* the cache file opened with 'a': the text is appended to the old one
WriteCache_append(fsys, t, cache_path, schema) ==
    [fsys EXCEPT ![cache_path] =
        [exists |-> TRUE, content |-> @.content \o JsonDump(schema),
         mtime |-> t]]

\* with open(cache_path, 'w') as f: json.dump(schema, f)
WriteCache(fsys, t, cache_path, schema) ==
    [fsys EXCEPT ![cache_path] =
        [exists |-> TRUE, content |-> JsonDump(schema), mtime |-> t]]

\* get_schema with one of its steps changed: "no_write" does not save the
\* downloaded schema, "no_expired" does not serve an expired entry offline,
\* "offline_ignored" downloads in offline mode too, "stale_fallback" serves
\* the expired entry when the download fails, "invalidate" removes the
\* entry when the download fails, "always_refresh" downloads in online mode
\* even when the entry is valid
get_schema_changed(fsys, t, net, url, offline, change) ==
    LET cache_path == get_cache_path(url)
    IN  IF /\ is_cache_valid(fsys, t, cache_path)
           /\ ~(change = "always_refresh" /\ ~offline)
        THEN [fs |-> fsys, result |-> ReadCache(fsys, cache_path),
              fetched |-> <<>>]
        ELSE IF offline /\ change # "offline_ignored"
        THEN IF fsys[cache_path].exists /\ change # "no_expired"
             THEN [fs |-> fsys, result |-> ReadCache(fsys, cache_path),
                   fetched |-> <<>>]
             ELSE [fs |-> fsys, result |-> Raise("ValueError", url),
                   fetched |-> <<>>]
        ELSE LET schema == download_from_url(net, url)
             IN  IF schema.kind = "raise"
                 THEN IF change = "stale_fallback" /\ fsys[cache_path].exists
                      THEN [fs |-> fsys,
                            result |-> ReadCache(fsys, cache_path),
                            fetched |-> <<url>>]
                      ELSE IF change = "invalidate"
                      THEN [fs |-> [fsys EXCEPT ![cache_path] = NoFile],
                            result |-> schema, fetched |-> <<url>>]
                      ELSE [fs |-> fsys, result |-> schema,
                            fetched |-> <<url>>]
                 ELSE IF change = "no_write"
                 THEN [fs |-> fsys, result |-> schema, fetched |-> <<url>>]
                 ELSE IF ~fsys[CacheDirPath].exists
                 THEN [fs |-> fsys,
                       result |-> Raise("FileNotFoundError", cache_path),
                       fetched |-> <<url>>]
                 ELSE [fs |-> WriteCache(fsys, t, cache_path, schema.value),
                       result |-> schema, fetched |-> <<url>>]

get_schema_no_write(fsys, t, net, url, offline) ==
    get_schema_changed(fsys, t, net, url, offline, "no_write")

get_schema_no_expired(fsys, t, net, url, offline) ==
    get_schema_changed(fsys, t, net, url, offline, "no_expired")

get_schema_offline_ignored(fsys, t, net, url, offline) ==
    get_schema_changed(fsys, t, net, url, offline, "offline_ignored")

get_schema_stale_fallback(fsys, t, net, url, offline) ==
    get_schema_changed(fsys, t, net, url, offline, "stale_fallback")

get_schema_invalidate(fsys, t, net, url, offline) ==
    get_schema_changed(fsys, t, net, url, offline, "invalidate")

get_schema_always_refresh(fsys, t, net, url, offline) ==
    get_schema_changed(fsys, t, net, url, offline, "always_refresh")

\* get_schema after download_from_url: the exception goes to the caller, or
\* the schema is saved to cache_path and returned; open(cache_path, 'w')
\* raises FileNotFoundError when the cache directory does not exist
save_to_cache(fsys, t, url, cache_path, schema) ==
    IF schema.kind = "raise"
    THEN [fs |-> fsys, result |-> schema, fetched |-> <<url>>]
    ELSE IF ~fsys[CacheDirPath].exists
    THEN [fs |-> fsys, result |-> Raise("FileNotFoundError", cache_path),
          fetched |-> <<url>>]
    ELSE [fs |-> WriteCache(fsys, t, cache_path, schema.value),
          result |-> schema, fetched |-> <<url>>]

\* SchemaDownloader.get_schema: the file system after the call, the result,
\* and the URLs download_from_url was called with, in order
get_schema(fsys, t, net, url, offline) ==
    LET cache_path == get_cache_path(url)
    IN  IF is_cache_valid(fsys, t, cache_path)
        THEN [fs |-> fsys, result |-> ReadCache(fsys, cache_path),
              fetched |-> <<>>]
        ELSE IF offline
        THEN IF fsys[cache_path].exists
             THEN [fs |-> fsys, result |-> ReadCache(fsys, cache_path),
                   fetched |-> <<>>]
             ELSE [fs |-> fsys, result |-> Raise("ValueError", url),
                   fetched |-> <<>>]
        ELSE save_to_cache(fsys, t, url, cache_path,
                           download_from_url(net, url))

\* the record of one get_schema call: its arguments, the cache entry and
\* the clock it found, the answer of the URL, and what the call did (r)
CallRecord(fsys, t, net, url, offline, r) ==
    [url |-> url, offline |-> offline, at |-> t,
     pre |-> fsys[get_cache_path(url)], payload |-> net[url],
     result |-> r.result, fetched |-> r.fetched]

\* SchemaDownloader.get_static_schema
get_static_schema(fsys, t, net, offline) ==
    get_schema(fsys, t, net, STATIC_CONFS_SCHEMA_URL, offline)

\* SchemaDownloader.get_dynamic_schema
get_dynamic_schema(fsys, t, net, offline) ==
    get_schema(fsys, t, net, DYNAMIC_CONFS_SCHEMA_URL, offline)

\* Validator.load_yaml followed by jsonschema.validate(instance, schema)
load_and_match(file, schema) ==
    IF ~file.yaml THEN Raise("YAMLError", "")
    ELSE IF schema \in file.accepts THEN Return("None")
    ELSE Raise("jsonschema.ValidationError", "")

\* _validate_static / _validate_dynamic after the get_schema call g (recorded
\* as call): its exception goes to the caller, or the file is loaded and
\* matched against the schema
validate_against(g, call, file) ==
    IF g.result.kind = "raise"
    THEN [fs |-> g.fs, calls |-> <<call>>, result |-> g.result]
    ELSE [fs |-> g.fs, calls |-> <<call>>,
          result |-> load_and_match(file, g.result.value)]

\* Validator._validate_static: the file system after it, the get_schema
\* calls it made, and how it ended
validate_static(fsys, t, net, v) ==
    IF ~v.static_conf_file.given
    THEN [fs |-> fsys, calls |-> <<>>, result |-> Return("None")]
    ELSE validate_against(
             get_static_schema(fsys, t, net, v.offline),
             CallRecord(fsys, t, net, STATIC_CONFS_SCHEMA_URL, v.offline,
                        get_static_schema(fsys, t, net, v.offline)),
             v.static_conf_file)

\* Validator._validate_dynamic
validate_dynamic(fsys, t, net, v) ==
    IF ~v.dynamic_conf_file.given
    THEN [fs |-> fsys, calls |-> <<>>, result |-> Return("None")]
    ELSE validate_against(
             get_dynamic_schema(fsys, t, net, v.offline),
             CallRecord(fsys, t, net, DYNAMIC_CONFS_SCHEMA_URL, v.offline,
                        get_dynamic_schema(fsys, t, net, v.offline)),
             v.dynamic_conf_file)

\* try blocks that catch nothing
CaughtNothing == {}

\* the exceptions the try blocks of Validator.validate catch
Caught == {"jsonschema.ValidationError"}

\* one try block of Validator.validate around r, the outcome of
\* _validate_static or _validate_dynamic: "valid" is printed, or a caught
\* exception is appended to validation_errors and printed, or the exception
\* leaves validate
try_block(r, role, valid, error) ==
    IF r.result.kind = "return"
    THEN [fs |-> r.fs, calls |-> r.calls, printed |-> <<valid>>,
          validation_errors |-> <<>>, raised |-> FALSE, result |-> r.result]
    ELSE IF r.result.type \in Caught
    THEN [fs |-> r.fs, calls |-> r.calls, printed |-> <<error>>,
          validation_errors |-> <<role>>, raised |-> FALSE,
          result |-> r.result]
    ELSE [fs |-> r.fs, calls |-> r.calls, printed |-> <<>>,
          validation_errors |-> <<>>, raised |-> TRUE, result |-> r.result]

\* a block of Validator.validate whose file was not given
Skipped(fsys) ==
    [fs |-> fsys, calls |-> <<>>, printed |-> <<>>,
     validation_errors |-> <<>>, raised |-> FALSE, result |-> Return("None")]

\* Validator.validate, first block: the static configuration
validate_static_block(fsys, t, net, v) ==
    IF ~v.static_conf_file.given
    THEN Skipped(fsys)
    ELSE try_block(validate_static(fsys, t, net, v), "static",
                   "Static configuration is valid",
                   "Static configuration error")

\* Validator.validate, second block: the dynamic configuration
validate_dynamic_block(fsys, t, net, v) ==
    IF ~v.dynamic_conf_file.given
    THEN Skipped(fsys)
    ELSE try_block(validate_dynamic(fsys, t, net, v), "dynamic",
                   "Dynamic configuration is valid",
                   "Dynamic configuration error")

\* the end of Validator.validate, after the blocks s and d: an exception
\* that left the second block, or the aggregate ValidationError when
\* validation_errors is not empty, or None
raise_if_errors(s, d, validation_errors) ==
    [fs |-> d.fs, calls |-> s.calls \o d.calls,
     printed |-> s.printed \o d.printed,
     validation_errors |-> validation_errors,
     raised |-> d.raised \/ validation_errors # <<>>,
     result |->
         IF d.raised THEN d.result
         ELSE IF validation_errors # <<>>
         THEN Raise("ValidationError", "Configuration validation failed")
         ELSE Return("None")]

\* Validator.validate after its first block s: an exception that left the
\* block leaves validate, else the second block runs
after_static_block(s, t, net, v) ==
    IF s.raised THEN s
    ELSE raise_if_errors(s, validate_dynamic_block(s.fs, t, net, v),
             s.validation_errors
                 \o validate_dynamic_block(s.fs, t, net, v).validation_errors)

\* Validator.validate
validate(fsys, t, net, v) ==
    after_static_block(validate_static_block(fsys, t, net, v), t, net, v)

\* a process that is not in a get_schema call
IdleProc ==
    [pc |-> "idle", url |-> "", offline |-> FALSE, offset |-> 0,
     result |-> Return("None"), read |-> FALSE, last |-> FALSE]

\* no command has run in the last step
NoCli ==
    [ran |-> FALSE, static_config |-> [opens |-> TRUE, file |-> NoneFile],
     dynamic_config |-> [opens |-> TRUE, file |-> NoneFile],
     offline |-> FALSE, json |-> FALSE, version |-> FALSE,
     code |-> 0, message |-> ""]

\* a file system without the cache directory and without any cache file
EmptyFs == [p \in Paths \cup {CacheDirPath} |-> NoFile]

\* a caller has constructed a SchemaDownloader: the cache directory exists
Init ==
    /\ fs = makedirs(EmptyFs)
    /\ now = 0
    /\ ticks = 0
    /\ calls = <<>>
    /\ checked = NoCheck
    /\ run = NoRun
    /\ cli = NoCli
    /\ procs = [i \in Procs |-> IdleProc]

\* no operation has a result pending with its caller
Idle == calls = <<>> /\ ~checked.called /\ ~run.ran /\ ~cli.ran

\* the clock advances between two operations
Tick ==
    /\ Idle
    /\ ticks < MaxTicks
    /\ \E d \in Steps : now' = now + d
    /\ ticks' = ticks + 1
    /\ UNCHANGED <<fs, calls, checked, run, cli, procs>>

\* the caller has taken the result of the last operation
Done ==
    /\ ~Idle
    /\ calls' = <<>>
    /\ checked' = NoCheck
    /\ run' = NoRun
    /\ cli' = NoCli
    /\ UNCHANGED <<fs, now, ticks, procs>>

\* the effect of a get_schema call that did r
GetSchemaEffect(net, url, offline, r) ==
    /\ fs' = r.fs
    /\ calls' = <<CallRecord(fs, now, net, url, offline, r)>>

\* a caller calls get_schema(url, offline) of its SchemaDownloader
GetSchemaCall ==
    \E url \in Urls, offline \in BOOLEAN, net \in [Urls -> Payloads] :
        /\ Idle
        /\ GetSchemaEffect(net, url, offline,
                           get_schema(fs, now, net, url, offline))
        /\ checked' = NoCheck
        /\ run' = NoRun
        /\ UNCHANGED <<now, ticks, cli, procs>>

\* a caller calls _is_cache_valid(cache_path) of its SchemaDownloader
IsCacheValidCall ==
    \E cache_path \in Paths :
        /\ Idle
        /\ checked' = [called |-> TRUE, path |-> cache_path,
                       result |-> is_cache_valid(fs, now, cache_path)]
        /\ calls' = <<>>
        /\ run' = NoRun
        /\ UNCHANGED <<fs, now, ticks, cli, procs>>

\* Validator.__init__: the arguments are kept
Validator(static_conf_file, dynamic_conf_file, offline) ==
    [static_conf_file |-> static_conf_file,
     dynamic_conf_file |-> dynamic_conf_file, offline |-> offline]

\* Validator.__init__ without any file: ValueError, before the
\* SchemaDownloader is constructed
no_file_error(fsys) ==
    [fs |-> fsys, calls |-> <<>>, printed |-> <<>>,
     validation_errors |-> <<>>, raised |-> TRUE,
     result |-> Raise("ValueError", "User should pass either file")]

\* Validator(...) that constructs its SchemaDownloader before it looks at
\* the files
construct_and_validate_eager(fsys, t, net, v) ==
    IF ~(v.static_conf_file.given \/ v.dynamic_conf_file.given)
    THEN no_file_error(makedirs(fsys))
    ELSE validate(makedirs(fsys), t, net, v)

\* Validator(...) followed by validate(): without any file the constructor
\* raises; else it constructs the SchemaDownloader and validate() runs
construct_and_validate(fsys, t, net, v) ==
    IF ~(v.static_conf_file.given \/ v.dynamic_conf_file.given)
    THEN no_file_error(fsys)
    ELSE validate(makedirs(fsys), t, net, v)

\* the effect of validate() of the Validator v that did r
ValidateEffect(v, r) ==
    /\ fs' = r.fs
    /\ calls' = r.calls
    /\ run' = [ran |-> TRUE, static_conf_file |-> v.static_conf_file,
               dynamic_conf_file |-> v.dynamic_conf_file,
               offline |-> v.offline, printed |-> r.printed,
               validation_errors |-> r.validation_errors,
               result |-> r.result]

\* a caller constructs a Validator and, if that succeeds, runs validate()
ValidatorRun ==
    \E static_conf_file \in Files, dynamic_conf_file \in Files,
       offline \in BOOLEAN, net \in [Urls -> Payloads] :
        /\ Idle
        /\ ValidateEffect(
               Validator(static_conf_file, dynamic_conf_file, offline),
               construct_and_validate(fs, now, net,
                   Validator(static_conf_file, dynamic_conf_file, offline)))
        /\ checked' = NoCheck
        /\ UNCHANGED <<now, ticks, cli, procs>>

(***************************************************************************)
(* The command validate_traefik                                            *)
(***************************************************************************)
\* the value of -s / -d: the option is absent (the file is None), or its
\* path was opened by argparse.FileType('r'), or its path cannot be opened
PathArgs ==
    {[opens |-> TRUE, file |-> f] : f \in Files}
        \cup {[opens |-> FALSE, file |-> NoneFile]}

\* what a command has done: the file system, the get_schema calls, the exit
\* code of the process and the kind of message printed last
CliResult(fsys, cs, code, message) ==
    [fs |-> fsys, calls |-> cs, code |-> code, message |-> message]

\* the except clauses of validate_traefik that exit 0
cli_outcome_swallow(r) ==
    IF r.result.kind = "return"
    THEN CliResult(r.fs, r.calls, 0, "All configurations are valid")
    ELSE IF r.result.type = "ValidationError"
    THEN CliResult(r.fs, r.calls, 1, "validation failed")
    ELSE IF r.result.type \in ValueErrors
    THEN CliResult(r.fs, r.calls, 0, "Error")
    ELSE CliResult(r.fs, r.calls, 1, "Unexpected error")

\* validate_traefik after Validator(...).validate() ended as r: the message
\* of success, or the except clause of the exception and sys.exit(1)
cli_outcome(r) ==
    IF r.result.kind = "return"
    THEN CliResult(r.fs, r.calls, 0, "All configurations are valid")
    ELSE IF r.result.type = "ValidationError"
    THEN CliResult(r.fs, r.calls, 1, "validation failed")
    ELSE IF r.result.type \in ValueErrors
    THEN CliResult(r.fs, r.calls, 1, "Error")
    ELSE CliResult(r.fs, r.calls, 1, "Unexpected error")

\* validate_traefik: parse_args exits 2 when a path cannot be opened;
\* --version exits 0; no file is the usage error, exit 1; else the Validator
\* is constructed and run
validate_traefik(fsys, t, net, args) ==
    IF ~args.static_config.opens \/ ~args.dynamic_config.opens
    THEN CliResult(fsys, <<>>, 2, "argparse error")
    ELSE IF args.version
    THEN CliResult(fsys, <<>>, 0, "version")
    ELSE IF ~args.static_config.file.given /\ ~args.dynamic_config.file.given
    THEN CliResult(fsys, <<>>, 1, "usage")
    ELSE cli_outcome(
             construct_and_validate(fsys, t, net,
                 Validator(args.static_config.file, args.dynamic_config.file,
                           args.offline)))

\* the effect of the command with arguments args that did r
CliEffect(args, r) ==
    /\ fs' = r.fs
    /\ calls' = r.calls
    /\ cli' = [ran |-> TRUE, static_config |-> args.static_config,
               dynamic_config |-> args.dynamic_config,
               offline |-> args.offline, json |-> args.json,
               version |-> args.version, code |-> r.code,
               message |-> r.message]

\* the arguments of the command
Args(static_config, dynamic_config, offline, json, version) ==
    [static_config |-> static_config, dynamic_config |-> dynamic_config,
     offline |-> offline, json |-> json, version |-> version]

\* a user runs the command
CliRun ==
    \E static_config \in PathArgs, dynamic_config \in PathArgs,
       offline \in BOOLEAN, json \in BOOLEAN, version \in BOOLEAN,
       net \in [Urls -> Payloads] :
        /\ Idle
        /\ CliEffect(
               Args(static_config, dynamic_config, offline, json, version),
               validate_traefik(fs, now, net,
                   Args(static_config, dynamic_config, offline, json,
                        version)))
        /\ checked' = NoCheck
        /\ run' = NoRun
        /\ UNCHANGED <<now, ticks, procs>>

Next ==
    \/ Tick
    \/ GetSchemaCall
    \/ IsCacheValidCall
    \/ ValidatorRun
    \/ Done

Spec == Init /\ [][Next]_vars

\* outside the program, the cache directory is removed with its files
RemoveCacheDir ==
    /\ Idle
    /\ fs[CacheDirPath].exists
    /\ fs' = EmptyFs
    /\ UNCHANGED <<now, ticks, calls, checked, run, cli, procs>>

\* SchemaDownloader.__init__: another SchemaDownloader is constructed
NewDownloader ==
    /\ Idle
    /\ ~fs[CacheDirPath].exists
    /\ fs' = makedirs(fs)
    /\ UNCHANGED <<now, ticks, calls, checked, run, cli, procs>>

\* the texts a cache file holds when the process that writes it is killed
\* between open(cache_path, 'w') and the end of json.dump
Interrupted == {<<>>, Malformed}

\* a process in get_schema is killed while it writes a cache file
InterruptedWrite ==
    \E cache_path \in Paths, text \in Interrupted :
        /\ Idle
        /\ fs[CacheDirPath].exists
        /\ fs' = [fs EXCEPT ![cache_path] =
                     [exists |-> TRUE, content |-> text, mtime |-> now]]
        /\ UNCHANGED <<now, ticks, calls, checked, run, cli, procs>>

NextEnv ==
    \/ Tick
    \/ RemoveCacheDir
    \/ NewDownloader
    \/ InterruptedWrite
    \/ GetSchemaCall
    \/ Done

\* a SchemaDownloader in use while the cache directory can be removed and
\* writers can be killed
SpecEnv == Init /\ [][NextEnv]_vars

\* nothing has been constructed yet: no cache directory, no cache file
InitFresh ==
    /\ fs = EmptyFs
    /\ now = 0
    /\ ticks = 0
    /\ calls = <<>>
    /\ checked = NoCheck
    /\ run = NoRun
    /\ cli = NoCli
    /\ procs = [i \in Procs |-> IdleProc]

NextCli ==
    \/ CliRun
    \/ ValidatorRun
    \/ Done

\* the command and the Validator on a machine where nothing exists yet
SpecCli == InitFresh /\ [][NextCli]_vars

(***************************************************************************)
(* get_schema step by step, by several processes that share the cache      *)
(* directory.  A process keeps: the statement it is at (pc), the arguments *)
(* of its call, the number of pieces of text it has written (offset), its  *)
(* result, whether the result was read from the cache file (read), and     *)
(* whether it was the last to close the cache file of its url (last).      *)
(***************************************************************************)
\* the byte that fills a file between its end and a write beyond its end
Hole == "\\0"

\* open(cache_path, 'w'): the file is created or truncated
OpenCache(fsys, t, cache_path) ==
    [fsys EXCEPT ![cache_path] =
        [exists |-> TRUE, content |-> <<>>, mtime |-> t]]

\* f.write(piece) at the position k of the writer's own file object
WriteAt(content, k, piece) ==
    IF k <= Len(content) THEN [content EXCEPT ![k] = piece]
    ELSE content \o [j \in 1..(k - 1 - Len(content)) |-> Hole] \o <<piece>>

\* one flush of json.dump(schema, f): the next piece of the text
WritePiece(fsys, t, cache_path, schema, offset) ==
    [fsys EXCEPT ![cache_path] =
        [exists |-> TRUE,
         content |-> WriteAt(@.content, offset + 1,
                             JsonDump(schema)[offset + 1]),
         mtime |-> t]]

\* process i enters get_schema(url, offline)
Call(i) ==
    \E url \in Urls, offline \in BOOLEAN :
        /\ procs[i].pc = "idle"
        /\ procs' = [procs EXCEPT ![i] =
                        [IdleProc EXCEPT !.pc = "check", !.url = url,
                                         !.offline = offline]]
        /\ UNCHANGED <<fs, now, ticks, calls, checked, run, cli>>

\* the two tests of get_schema: _is_cache_valid(cache_path), and in offline
\* mode cache_path.exists()
Check(i) ==
    /\ procs[i].pc = "check"
    /\ procs' = [procs EXCEPT ![i] =
          IF is_cache_valid(fs, now, get_cache_path(@.url))
          THEN [@ EXCEPT !.pc = "read"]
          ELSE IF ~@.offline THEN [@ EXCEPT !.pc = "download"]
          ELSE IF fs[get_cache_path(@.url)].exists
          THEN [@ EXCEPT !.pc = "read"]
          ELSE [@ EXCEPT !.pc = "done",
                         !.result = Raise("ValueError", procs[i].url)]]
    /\ UNCHANGED <<fs, now, ticks, calls, checked, run, cli>>

\* with open(cache_path, 'r') as f: return json.load(f)
Read(i) ==
    /\ procs[i].pc = "read"
    /\ procs' = [procs EXCEPT ![i] =
          [@ EXCEPT !.pc = "done", !.read = TRUE,
                    !.result = ReadCache(fs, get_cache_path(procs[i].url))]]
    /\ UNCHANGED <<fs, now, ticks, calls, checked, run, cli>>

\* process i after download_from_url ended as schema
Downloaded(i, schema) ==
    procs' = [procs EXCEPT ![i] =
                 [@ EXCEPT !.pc = IF schema.kind = "raise" THEN "done"
                                  ELSE "open",
                           !.result = schema]]

\* schema = self.download_from_url(url)
Download(i) ==
    \E payload \in Payloads :
        /\ procs[i].pc = "download"
        /\ Downloaded(i, download_from_url([u \in Urls |-> payload],
                                           procs[i].url))
        /\ UNCHANGED <<fs, now, ticks, calls, checked, run, cli>>

\* open(cache_path, 'w')
Open(i) ==
    /\ procs[i].pc = "open"
    /\ IF fs[CacheDirPath].exists
       THEN /\ fs' = OpenCache(fs, now, get_cache_path(procs[i].url))
            /\ procs' = [procs EXCEPT ![i] = [@ EXCEPT !.pc = "write"]]
       ELSE /\ fs' = fs
            /\ procs' = [procs EXCEPT ![i] =
                  [@ EXCEPT !.pc = "done",
                            !.result = Raise("FileNotFoundError",
                                      get_cache_path(procs[i].url))]]
    /\ UNCHANGED <<now, ticks, calls, checked, run, cli>>

\* the processes after process i has closed its cache file: it is the last
\* to have closed the cache file of its url
Closed(i) ==
    [j \in Procs |->
        IF j = i THEN [procs[i] EXCEPT !.pc = "done", !.offset = @ + 1,
                                       !.last = TRUE]
        ELSE IF procs[j].url = procs[i].url
        THEN [procs[j] EXCEPT !.last = FALSE]
        ELSE procs[j]]

\* json.dump(schema, f): one piece of the text reaches the file; after the
\* last piece the file is closed and get_schema returns the schema
Write(i) ==
    /\ procs[i].pc = "write"
    /\ fs' = WritePiece(fs, now, get_cache_path(procs[i].url),
                        procs[i].result.value, procs[i].offset)
    /\ procs' = IF procs[i].offset + 1 = Len(JsonDump(procs[i].result.value))
                THEN Closed(i)
                ELSE [procs EXCEPT ![i] = [@ EXCEPT !.offset = @ + 1]]
    /\ UNCHANGED <<now, ticks, calls, checked, run, cli>>

\* the caller of process i has taken the result of get_schema
Returned(i) ==
    /\ procs[i].pc = "done"
    /\ procs' = [procs EXCEPT ![i] = IdleProc]
    /\ UNCHANGED <<fs, now, ticks, calls, checked, run, cli>>

CallStep == \E i \in Procs : Call(i)

CheckStep == \E i \in Procs : Check(i)

ReadStep == \E i \in Procs : Read(i)

DownloadStep == \E i \in Procs : Download(i)

OpenStep == \E i \in Procs : Open(i)

WriteStep == \E i \in Procs : Write(i)

ReturnStep == \E i \in Procs : Returned(i)

NextConc ==
    \/ Tick
    \/ CallStep
    \/ CheckStep
    \/ ReadStep
    \/ DownloadStep
    \/ OpenStep
    \/ WriteStep
    \/ ReturnStep

\* processes that call get_schema concurrently on one cache directory
SpecConc == Init /\ [][NextConc]_vars

(***************************************************************************)
(* Properties                                                              *)
(***************************************************************************)
\* the get_schema calls of the last operation
Calls == {calls[i] : i \in 1..Len(calls)}

\* the entry a call found was fresh: it existed and was younger than a day
FoundFresh(c) == c.pre.exists /\ c.at - c.pre.mtime < 86400

\* the entry a call found was stale: it existed and was a day old or older
FoundStale(c) == c.pre.exists /\ c.at - c.pre.mtime >= 86400

\* the URL answered the call's download with the text of a document
FetchSucceeds(c) == \E d \in Docs : c.payload = <<"{", d, "}">>

\* the cache entry of the call's identifier, now
EntryOf(c) == fs[get_cache_path(c.url)]

\* C1: a get_schema call in online mode that finds no entry or a stale one,
\* and whose download succeeds, downloads exactly once, leaves the text of
\* the downloaded document in the entry of the identifier, and returns the
\* downloaded document.
C1_OnlineFetchWritesAndReturns ==
    \A c \in Calls :
        (~c.offline /\ ~FoundFresh(c) /\ FetchSucceeds(c)) =>
            /\ c.fetched = <<c.url>>
            /\ c.result.kind = "return"
            /\ c.payload = <<"{", c.result.value, "}">>
            /\ EntryOf(c).exists
            /\ EntryOf(c).content = c.payload
            /\ EntryOf(c).mtime = c.at

\* a stale entry was replaced by a different downloaded document
C1_Witness ==
    \E c \in Calls :
        /\ ~c.offline /\ FoundStale(c) /\ FetchSucceeds(c)
        /\ c.fetched = <<c.url>>
        /\ c.pre.content # c.payload
        /\ EntryOf(c).content = c.payload

\* C2: a get_schema call that finds a fresh entry, in either mode, returns
\* the document of that entry and downloads nothing.
C2_FreshCacheShortCircuit ==
    \A c \in Calls :
        FoundFresh(c) =>
            /\ c.fetched = <<>>
            /\ c.result.kind = "return"
            /\ c.pre.content = <<"{", c.result.value, "}">>

\* a fresh entry was served although the URL had another document to offer
C2_Witness ==
    \E c \in Calls :
        /\ ~c.offline /\ FoundFresh(c) /\ FetchSucceeds(c)
        /\ c.payload # c.pre.content
        /\ c.at - c.pre.mtime = 86399
        /\ c.result.kind = "return"
        /\ c.fetched = <<>>

\* C3: a get_schema call in offline mode that finds a stale entry returns
\* the document of that entry and downloads nothing.
C3_OfflineServesStale ==
    \A c \in Calls :
        (c.offline /\ FoundStale(c)) =>
            /\ c.fetched = <<>>
            /\ c.result.kind = "return"
            /\ c.pre.content = <<"{", c.result.value, "}">>

\* an entry of age exactly TTL was served offline
C3_Witness ==
    \E c \in Calls :
        /\ c.offline /\ c.pre.exists /\ c.at - c.pre.mtime = 86400
        /\ c.result.kind = "return"
        /\ c.fetched = <<>>

\* C4: a get_schema call in offline mode that finds no entry raises the
\* error that names the identifier, downloads nothing, and leaves the whole
\* cache as it was (every cache file; and the cache directory too, unless
\* the call is made by a Validator that was constructed in the same step).
C4_OfflineNoCacheFails ==
    [][\A i \in 1..Len(calls') :
          (calls'[i].offline /\ ~calls'[i].pre.exists) =>
              /\ calls'[i].fetched = <<>>
              /\ calls'[i].result.kind = "raise"
              /\ calls'[i].result.type = "ValueError"
              /\ calls'[i].result.about = calls'[i].url
              /\ run'.ran \/ fs' = fs
              /\ \A p \in Paths : fs'[p] = fs[p]]_vars

\* an offline call found no entry although the other identifier had one
C4_Witness ==
    \E c \in Calls :
        /\ c.offline /\ ~c.pre.exists
        /\ c.result.kind = "raise"
        /\ ~EntryOf(c).exists
        /\ \E p \in Paths : fs[p].exists

\* C5: a get_schema call in online mode that finds no entry or a stale one,
\* and whose download fails, raises the download's error after one download,
\* returns nothing, and leaves the entry of the identifier as it found it.
C5_FetchFailurePropagates ==
    \A c \in Calls :
        (~c.offline /\ ~FoundFresh(c) /\ ~FetchSucceeds(c)) =>
            /\ c.fetched = <<c.url>>
            /\ c.result.kind = "raise"
            /\ c.result.type \in ValueErrors
            /\ c.result.about = c.url
            /\ EntryOf(c) = c.pre

\* a download failed although a stale entry could have been served
C5_Witness ==
    \E c \in Calls :
        /\ ~c.offline /\ FoundStale(c) /\ ~FetchSucceeds(c)
        /\ c.result.kind = "raise"
        /\ EntryOf(c) = c.pre

C6_WitnessFresh ==
    /\ checked.called
    /\ fs[checked.path].exists
    /\ now - fs[checked.path].mtime = 86399
    /\ checked.result = TRUE

\* C7: an entry just written by a successful download is fresh; an entry
\* written 86400 seconds ago or earlier is not fresh; and an entry that is
\* not fresh stays so as long as it is not written.
C7_FreshAfterWriteStaleAfterTTL ==
    /\ [](\A c \in Calls :
            (c.fetched = <<c.url>> /\ c.result.kind = "return") =>
                is_cache_valid(fs, now, get_cache_path(c.url)))
    /\ [](\A p \in Paths :
            (fs[p].exists /\ now >= fs[p].mtime + 86400) =>
                ~is_cache_valid(fs, now, p))
    /\ [][\A p \in Paths :
            (fs[p].exists /\ ~is_cache_valid(fs, now, p) /\ fs'[p] = fs[p])
                => ~is_cache_valid(fs', now', p)]_vars

\* an entry written by a download has aged past TTL and was not rewritten
C7_Witness ==
    \E p \in Paths :
        /\ fs[p].exists
        /\ now - fs[p].mtime > 86400
        /\ ~is_cache_valid(fs, now, p)

\* C8: an entry is created or changed only by a get_schema call for its
\* identifier whose download succeeded, and an entry is never removed.
C8_WriteOnlyOnSuccessfulFetch ==
    [][\A p \in Paths :
          /\ fs'[p] # fs[p] =>
                \E i \in 1..Len(calls') :
                    /\ get_cache_path(calls'[i].url) = p
                    /\ calls'[i].fetched = <<calls'[i].url>>
                    /\ \E d \in Docs : calls'[i].payload = <<"{", d, "}">>
                    /\ calls'[i].result.kind = "return"
          /\ fs[p].exists => fs'[p].exists]_vars

\* a stale entry survived a failed download for its identifier
C8_Witness ==
    \E c \in Calls :
        /\ c.fetched = <<c.url>>
        /\ c.result.kind = "raise"
        /\ FoundStale(c)
        /\ EntryOf(c).exists

\* both files were given to the Validator
BothRoles ==
    run.ran /\ run.static_conf_file.given /\ run.dynamic_conf_file.given

\* C9: when both files are given and get_schema fails for the static role,
\* validate still calls get_schema for the dynamic role, and fails.
C9_AcquisitionErrorDoesNotStopOtherRole ==
    (BothRoles /\ Len(calls) >= 1 /\ calls[1].result.kind = "raise") =>
        /\ Len(calls) = 2
        /\ calls[2].url = DYNAMIC_CONFS_SCHEMA_URL
        /\ run.result.kind = "raise"

\* the static file was matched against its schema and does not conform
StaticInvalid ==
    /\ Len(calls) >= 1
    /\ calls[1].result.kind = "return"
    /\ run.static_conf_file.yaml
    /\ calls[1].result.value \notin run.static_conf_file.accepts

\* the dynamic file was matched against its schema, with this outcome
DynamicMatched(conforms) ==
    /\ Len(calls) = 2
    /\ calls[2].result.kind = "return"
    /\ run.dynamic_conf_file.yaml
    /\ (calls[2].result.value \in run.dynamic_conf_file.accepts) = conforms

Supplied(a) == a.file.given \/ ~a.opens

\* the file of the option was opened, loaded and matched its role's schema
RoleValidated(a, url) ==
    /\ a.opens /\ a.file.given /\ a.file.yaml
    /\ \E c \in Calls :
          /\ c.url = url
          /\ c.result.kind = "return"
          /\ c.result.value \in a.file.accepts

\* at least one file was supplied and every supplied file validated
AllValidated ==
    /\ Supplied(cli.static_config) \/ Supplied(cli.dynamic_config)
    /\ Supplied(cli.static_config) =>
          RoleValidated(cli.static_config, STATIC_CONFS_SCHEMA_URL)
    /\ Supplied(cli.dynamic_config) =>
          RoleValidated(cli.dynamic_config, DYNAMIC_CONFS_SCHEMA_URL)

C12_WitnessZero ==
    /\ cli.ran /\ ~cli.version
    /\ Len(calls) = 2
    /\ AllValidated
    /\ cli.code = 0

\* C13: when neither file is supplied, the command exits non-zero and the
\* Validator constructor raises ValueError, and in both cases the step
\* makes no get_schema call (so no download and no cache read) and changes
\* nothing in the file system: no cache directory, no cache file.
C13_NoFilesNoAccess ==
    [][/\ (/\ cli'.ran /\ ~cli'.version
           /\ cli'.static_config = [opens |-> TRUE, file |-> NoneFile]
           /\ cli'.dynamic_config = [opens |-> TRUE, file |-> NoneFile])
          => (cli'.code # 0 /\ calls' = <<>> /\ fs' = fs)
       /\ (/\ run'.ran
           /\ ~run'.static_conf_file.given
           /\ ~run'.dynamic_conf_file.given)
          => (/\ run'.result.kind = "raise"
              /\ run'.result.type = "ValueError"
              /\ calls' = <<>>
              /\ fs' = fs)]_vars

\* the usage error on a machine that still has no cache directory
C13_Witness ==
    /\ cli.ran /\ ~cli.version
    /\ ~cli.static_config.file.given /\ cli.static_config.opens
    /\ ~cli.dynamic_config.file.given /\ cli.dynamic_config.opens
    /\ cli.code = 1
    /\ ~fs[CacheDirPath].exists

\* Validator() without files raised on a machine without cache directory
C13_WitnessValidator ==
    /\ run.ran
    /\ ~run.static_conf_file.given /\ ~run.dynamic_conf_file.given
    /\ run.result.type = "ValueError"
    /\ ~fs[CacheDirPath].exists

\* C14: whenever get_schema has downloaded a document, the write makes the
\* cache directory if it is absent, so the document is saved and returned
\* whether or not the directory existed when the write began.
C14_WriteCreatesDirectory ==
    \A c \in Calls :
        (c.fetched = <<c.url>> /\ FetchSucceeds(c)) =>
            /\ c.result.kind = "return"
            /\ fs[CacheDirPath].exists
            /\ EntryOf(c).exists
            /\ EntryOf(c).content = c.payload

\* the URLs the last operation downloaded from, in order
Fetches ==
    IF Len(calls) = 0 THEN <<>>
    ELSE IF Len(calls) = 1 THEN calls[1].fetched
    ELSE calls[1].fetched \o calls[2].fetched

\* the downloads of a Validator run, one per supplied role, static first
ExpectedFetches(r) ==
    (IF r.static_conf_file.given THEN <<STATIC_CONFS_SCHEMA_URL>> ELSE <<>>)
        \o (IF r.dynamic_conf_file.given
            THEN <<DYNAMIC_CONFS_SCHEMA_URL>> ELSE <<>>)

\* C15: in online mode, when neither role has a fresh cache entry, validate
\* downloads exactly once per supplied role, from that role's URL, static
\* before dynamic, and never for a role whose file was not supplied.
C15_OneFetchPerSuppliedRole ==
    [][(/\ run'.ran
        /\ ~run'.offline
        /\ run'.static_conf_file.given \/ run'.dynamic_conf_file.given
        /\ \A p \in Paths : ~(fs[p].exists /\ now - fs[p].mtime < 86400))
          => Fetches' = ExpectedFetches(run')]_vars

\* the cache files that exist
Entries == {p \in Paths : fs[p].exists}

\* C16: a successful download for an identifier whose entry was written
\* before leaves that entry holding the text of the new document and the
\* time of the new write, and the set of cache files is the old set (plus
\* the entries of the other identifiers downloaded in the same step).
C16_SecondWriteReplaces ==
    [][\A i \in 1..Len(calls') :
          LET c == calls'[i]
              p == get_cache_path(c.url)
          IN  (/\ c.fetched = <<c.url>>
               /\ c.result.kind = "return"
               /\ fs[p].exists) =>
                  /\ fs'[p] = [exists |-> TRUE,
                               content |-> <<"{", c.result.value, "}">>,
                               mtime |-> now]
                  /\ Entries' = Entries \cup
                        {get_cache_path(calls'[j].url) :
                            j \in {k \in 1..Len(calls') :
                                     /\ calls'[k].fetched # <<>>
                                     /\ calls'[k].result.kind = "return"}}]_vars

\* the only cache file was written a second time, with another document
C16_Witness ==
    \E c \in Calls :
        /\ c.pre.exists
        /\ c.fetched = <<c.url>>
        /\ c.result.kind = "return"
        /\ c.pre.content # c.payload
        /\ EntryOf(c).content = c.payload
        /\ EntryOf(c).mtime > c.pre.mtime
        /\ Entries = {get_cache_path(c.url)}

\* C20: a successful download leaves the text of the returned document in
\* the entry, with the time of the write; and every get_schema call for an
\* identifier whose entry is younger than 86400 seconds, in either mode,
\* returns the document of that entry, downloads nothing and leaves the
\* entry as it is.
C20_ServedFromCacheWithinTTL ==
    [][\A i \in 1..Len(calls') :
          LET c == calls'[i]
              p == get_cache_path(c.url)
          IN  /\ (c.fetched = <<c.url>> /\ c.result.kind = "return") =>
                    /\ fs'[p].content = <<"{", c.result.value, "}">>
                    /\ fs'[p].mtime = now
                    /\ c.payload = fs'[p].content
              /\ (fs[p].exists /\ now - fs[p].mtime < 86400) =>
                    /\ c.fetched = <<>>
                    /\ c.result.kind = "return"
                    /\ fs[p].content = <<"{", c.result.value, "}">>
                    /\ fs'[p] = fs[p]]_vars

\* an entry written after the start was served offline 86399 seconds later
C20_Witness ==
    \E c \in Calls :
        /\ c.offline
        /\ c.pre.exists
        /\ c.pre.mtime > 0
        /\ c.at - c.pre.mtime = 86399
        /\ c.fetched = <<>>
        /\ c.result.kind = "return"
        /\ EntryOf(c) = c.pre

\* C11: a get_schema call in online mode that finds an entry that does not
\* decode, fresh or stale, downloads from the URL and, when the download
\* succeeds, overwrites the entry and returns the downloaded document; the
\* decode error reaches the caller only in offline mode.
C11_UndecodableEntryIsRefetched ==
    \A c \in Calls :
        (c.pre.exists /\ ~JsonLoad(c.pre.content).ok) =>
            IF c.offline
            THEN c.result.kind = "raise" /\ c.result.type = "JSONDecodeError"
            ELSE /\ c.fetched = <<c.url>>
                 /\ FetchSucceeds(c) =>
                       /\ c.result.kind = "return"
                       /\ c.payload = <<"{", c.result.value, "}">>
                       /\ EntryOf(c).content = c.payload

\* C17: the cache path is a function of the url alone, distinct urls have
\* distinct cache paths, and no step of a process in get_schema(a, ...)
\* changes the cache file of another url b (its existence, its content or
\* its modification time), whatever the other processes are doing.
C17_OtherEntriesUntouched ==
    [][\A i \in Procs, b \in Urls :
          /\ get_cache_path(b) \in Paths
          /\ \A a \in Urls \ {b} : get_cache_path(a) # get_cache_path(b)
          /\ (procs'[i] # procs[i] /\ procs[i].url # b) =>
                fs'[get_cache_path(b)] = fs[get_cache_path(b)]]_vars

\* two processes are writing the cache files of two different urls, and
\* both files are partly written
C17_Witness ==
    \E i \in Procs, j \in Procs :
        /\ procs[i].pc = "write" /\ procs[j].pc = "write"
        /\ procs[i].url # procs[j].url
        /\ procs[i].offset = 2 /\ procs[j].offset = 1
        /\ Len(fs[get_cache_path(procs[i].url)].content) = 2
        /\ Len(fs[get_cache_path(procs[j].url)].content) = 1

\* the processes whose get_schema call has downloaded and written the
\* schema of url and has not yet returned to its caller
Writers(url) ==
    {i \in Procs : /\ procs[i].pc = "done" /\ procs[i].url = url
                   /\ ~procs[i].read /\ procs[i].result.kind = "return"}

\* C18: when all the concurrent get_schema calls that downloaded one url
\* have finished, the cache file of the url holds exactly the text of the
\* document of the call that closed the file last.
C18_LastWriterWins ==
    \A url \in Urls :
        (/\ Writers(url) = Procs
         /\ \A i \in Procs : procs[i].pc = "done") =>
            \A i \in Writers(url) :
                procs[i].last =>
                    fs[get_cache_path(url)].content
                        = JsonDump(procs[i].result.value)

\* C19: a get_schema call that has read the cache file, whatever the other
\* processes were doing to it, has read the complete text of a document.
C19_ReadersSeeCompleteDocuments ==
    \A i \in Procs :
        (procs[i].pc = "done" /\ procs[i].read) =>
            /\ procs[i].result.kind = "return"
            /\ procs[i].result.value \in Docs

====
